---- MODULE Spec2Model ----
(***************************************************************************)
(* Model of bulk_sms1.py: a sequential script that loads recipients and a  *)
(* message from two files, connects to one device and replays a UI macro   *)
(* per recipient (send_sms, go_back_to_main_screen, delete_last_sms).      *)
(*                                                                         *)
(* The device is the environment: every snapshot, lookup, tap, drag and    *)
(* shell command may raise, and every lookup may find its element or not.  *)
(* time.sleep and print never raise and are not steps of the model.        *)
(***************************************************************************)
EXTENDS Integers, Sequences, FiniteSets, TLC

(***************************************************************************)
(* Bounds of the model.                                                    *)
(***************************************************************************)
\* longest numbers.txt, in lines, that the loader specification reads
MaxLines == 3
\* most recipients in a run of main
MaxRecipients == 2
\* most clickable elements a snapshot returns in step 4 of send_sms
MaxSuggestions == 2

(***************************************************************************)
(* Text.  A line is a sequence of one-character strings.                   *)
(***************************************************************************)
\* a file: whether open() finds it, and its lines
File(lines) == [exists |-> TRUE, lines |-> lines]

Missing == [exists |-> FALSE, lines |-> <<>>]

DigitChars == <<"0", "1", "2", "3", "4", "5", "6", "7", "8", "9">>

IsDigit(c) == \E k \in 1..Len(DigitChars) : DigitChars[k] = c

IsSpace(c) == c = " "

\* the code point order of the characters a canonical number is made of
Ord(c) ==
    IF c = "+" THEN 43
    ELSE IF IsDigit(c) THEN 47 + (CHOOSE k \in 1..Len(DigitChars) : DigitChars[k] = c)
    ELSE 32

RECURSIVE LStrip(_)
LStrip(s) ==
    IF s # <<>> /\ IsSpace(Head(s)) THEN LStrip(Tail(s)) ELSE s

RECURSIVE RStrip(_)
RStrip(s) ==
    IF s # <<>> /\ IsSpace(s[Len(s)]) THEN RStrip(SubSeq(s, 1, Len(s) - 1)) ELSE s

\* str.strip
Strip(s) == RStrip(LStrip(s))

RECURSIVE DigitsOf(_)
DigitsOf(s) ==
    IF s = <<>> THEN <<>>
    ELSE IF IsDigit(Head(s)) THEN <<Head(s)>> \o DigitsOf(Tail(s))
    ELSE DigitsOf(Tail(s))

\* phonenumbers.parse(line, None) returns a number (does not raise
\* NumberParseException): without a default region the text must carry its
\* country code behind a leading "+", may group its digits with "-" or " ",
\* and must hold a country code digit and a national number of 2 digits.
Parses(s) ==
    /\ s # <<>>
    /\ Head(s) = "+"
    /\ \A k \in 2..Len(s) : IsDigit(s[k]) \/ s[k] = "-" \/ s[k] = " "
    /\ Len(DigitsOf(s)) >= 3

\* phonenumbers.format_number(number, E164): "+" and the digits alone
E164(s) == <<"+">> \o DigitsOf(s)

\* str.__lt__ on two canonical numbers: by code point, a prefix first
RECURSIVE StrLess(_, _)
StrLess(a, b) ==
    IF b = <<>> THEN FALSE
    ELSE IF a = <<>> THEN TRUE
    ELSE IF Head(a) # Head(b) THEN Ord(Head(a)) < Ord(Head(b))
    ELSE StrLess(Tail(a), Tail(b))

\* Sorted with the order reversed
RECURSIVE SortedDescending(_)
SortedDescending(S) ==
    IF S = {} THEN <<>>
    ELSE LET m == CHOOSE x \in S : \A y \in S : x = y \/ StrLess(y, x)
         IN  <<m>> \o SortedDescending(S \ {m})

\* sorted(set): ascending, least element first
RECURSIVE Sorted(_)
Sorted(S) ==
    IF S = {} THEN <<>>
    ELSE LET m == CHOOSE x \in S : \A y \in S : x = y \/ StrLess(x, y)
         IN  <<m>> \o Sorted(S \ {m})

\* the loop of get_phone_numbers over the lines of the file: the set after
\* the lines have been read in order
RECURSIVE ReadNumbers(_, _)
ReadNumbers(lines, acc) ==
    IF lines = <<>> THEN acc
    ELSE LET line == Strip(Head(lines))
         IN  IF line = <<>> THEN ReadNumbers(Tail(lines), acc)
             ELSE IF Parses(line)
                  THEN ReadNumbers(Tail(lines), acc \cup {E164(line)})
                  ELSE ReadNumbers(Tail(lines), acc)

\* get_phone_numbers: [exit |-> code] or [exit |-> 0, value |-> list]
get_phone_numbers(file) ==
    IF ~file.exists THEN [exit |-> 1, value |-> <<>>]
    ELSE LET numbers == ReadNumbers(file.lines, {})
         IN  IF numbers = {} THEN [exit |-> 2, value |-> <<>>]
             ELSE [exit |-> 0, value |-> Sorted(numbers)]

\* get_message with the strip applied to the test alone
get_messageUnstripped(file) ==
    IF ~file.exists THEN [exit |-> 1, value |-> <<>>]
    ELSE LET line == IF file.lines = <<>> THEN <<>> ELSE Head(file.lines)
         IN  IF Strip(line) = <<>> THEN [exit |-> 3, value |-> <<>>]
             ELSE [exit |-> 0, value |-> line]

\* get_message: [exit |-> code] or [exit |-> 0, value |-> line]
get_message(file) ==
    IF ~file.exists THEN [exit |-> 1, value |-> <<>>]
    ELSE LET line == Strip(IF file.lines = <<>> THEN <<>> ELSE Head(file.lines))
         IN  IF line = <<>> THEN [exit |-> 3, value |-> <<>>]
             ELSE [exit |-> 0, value |-> line]

(***************************************************************************)
(* Inputs.                                                                 *)
(***************************************************************************)
\* lines of numbers.txt the loader specification draws from
Lines ==
    { <<>>,
      <<" ", " ">>,
      <<"+", "1", "2", "3">>,
      <<" ", "+", "1", "2", "3", " ">>,
      <<"+", "1", "-", "2", "3">>,
      <<"+", "1", "2">>,
      <<"+", "1", "2", "3", "4">>,
      <<"+", "9", "1", "0">>,
      <<"1", "2", "3">> }

SeqsUpTo(S, n) == UNION { [1..k -> S] : k \in 0..n }

LoaderNumbersFiles == {Missing} \cup { File(l) : l \in SeqsUpTo(Lines, MaxLines) }

LoaderContentFiles ==
    { Missing,
      File(<<>>),
      File(<< <<>> >>),
      File(<< <<" ", " ">> >>),
      File(<< <<>>, <<"h", "i">> >>),
      File(<< <<"h", "i">> >>),
      File(<< <<" ", "h", " ", "i", " ">>, <<"y", "o">> >>) }

\* the k-th number of a run's numbers.txt
RunNumber(k) == <<"+", "1", "2", DigitChars[k + 1]>>

\* a numbers.txt of one unparseable line and n numbers, greatest first
RunNumbersFile(n) ==
    File(<< <<"a", "b">> >> \o [j \in 1..n |-> RunNumber(n - j + 1)])

RunNumbersFiles == {Missing} \cup { RunNumbersFile(n) : n \in 0..MaxRecipients }

RunContentFiles == { Missing, File(<< <<" ", " ">> >>), File(<< <<" ", "h", "i">> >>) }

(***************************************************************************)
(* State.                                                                  *)
(***************************************************************************)
VARIABLES
    numbers_file,   \* numbers.txt
    content_file,   \* content.txt
    draft,          \* --draft
    delete,         \* --delete
    phone_numbers,  \* main's list of recipients
    message,        \* main's message
    pc,             \* main's position
    exit_code,      \* -1 while running, else the process's exit code
    i,              \* 1-based index of the recipient being processed
    success_count,  \* main's counter
    report,         \* <<>>, or <<success_count, len(phone_numbers)>> as printed
    fn,             \* the function main is in: "main" or a callee
    at,             \* the callee's position
    status,         \* the callee: "none" (running), "returned", "raised"
    exc,            \* the exception a raising callee propagates
    retval,         \* the callee's return value
    attempt,        \* send_sms's loop variable
    suggestions,    \* send_sms's list of clickable elements
    ops,            \* device operations of the current attempt or call
    outcomes,       \* how each finished attempt of this send_sms ended
    backKeys,       \* back keys send_sms issued since the last attempt ended
    result,         \* per recipient: how its send_sms ended
    calls           \* per recipient: what main did for it, in order

startup == <<numbers_file, content_file, draft, delete, phone_numbers, message>>
orchestrator == <<pc, exit_code, i, success_count, report, result, calls>>
callee == <<fn, at, status, exc, retval, attempt, suggestions, ops, outcomes, backKeys>>
vars == <<startup, orchestrator, callee>>

max_retries == 3

N == Len(phone_numbers)

InitWith(numbersFiles, contentFiles) ==
    /\ numbers_file \in numbersFiles
    /\ content_file \in contentFiles
    /\ draft \in BOOLEAN
    /\ delete \in BOOLEAN
    /\ phone_numbers = <<>>
    /\ message = <<>>
    /\ pc = "get_phone_numbers"
    /\ exit_code = -1
    /\ i = 0
    /\ success_count = 0
    /\ report = <<>>
    /\ fn = "main"
    /\ at = ""
    /\ status = "none"
    /\ exc = "none"
    /\ retval = "none"
    /\ attempt = 0
    /\ suggestions = <<>>
    /\ ops = <<>>
    /\ outcomes = <<>>
    /\ backKeys = 0
    /\ result = <<>>
    /\ calls = <<>>

Init == InitWith(RunNumbersFiles, RunContentFiles)

InitLoader == InitWith(LoaderNumbersFiles, LoaderContentFiles)

(***************************************************************************)
(* Calls and device operations.                                            *)
(***************************************************************************)
Entry(f) ==
    IF f = "send_sms" THEN "dump_home"
    ELSE IF f = "go_back_to_main_screen" THEN "dump_first"
    ELSE IF f = "delete_last_sms" THEN "dump_list"
    ELSE ""

\* main calls f (f = "main": no callee is running)
Call(f) ==
    /\ fn' = f
    /\ at' = Entry(f)
    /\ status' = "none"
    /\ exc' = "none"
    /\ retval' = "none"
    /\ attempt' = 0
    /\ suggestions' = <<>>
    /\ ops' = <<>>
    /\ outcomes' = <<>>
    /\ backKeys' = 0

\* one device operation: its kind, its target, how it ended, and the index of
\* the element in its list when the target is one of a list (else 0)
Op(kind, target, res) == <<kind, target, res, 0>>

Issue(kind, target, res) == ops' = Append(ops, Op(kind, target, res))

\* the callee returns v
Return(v) ==
    /\ status' = "returned"
    /\ retval' = v
    /\ at' = "end"
    /\ exc' = "none"

\* the callee raises e to main
Propagate(e) ==
    /\ status' = "raised"
    /\ exc' = e
    /\ at' = "end"
    /\ retval' = "none"

(***************************************************************************)
(* main: startup.                                                          *)
(***************************************************************************)
Exit(code) ==
    /\ pc' = "exit"
    /\ exit_code' = code

\* GetPhoneNumbers going on to the connection, the message not validated
GetPhoneNumbersThenConnect ==
    /\ pc = "get_phone_numbers"
    /\ LET r == get_phone_numbers(numbers_file)
       IN  IF r.exit # 0
           THEN Exit(r.exit) /\ UNCHANGED <<phone_numbers, result, calls>>
           ELSE /\ phone_numbers' = r.value
                /\ result' = [k \in 1..Len(r.value) |-> "none"]
                /\ calls' = [k \in 1..Len(r.value) |-> <<>>]
                /\ pc' = "connect"
                /\ UNCHANGED exit_code
    /\ UNCHANGED <<numbers_file, content_file, draft, delete, message>>
    /\ UNCHANGED <<i, success_count, report, callee>>

\* line 350
GetPhoneNumbers ==
    /\ pc = "get_phone_numbers"
    /\ LET r == get_phone_numbers(numbers_file)
       IN  IF r.exit # 0
           THEN Exit(r.exit) /\ UNCHANGED <<phone_numbers, result, calls>>
           ELSE /\ phone_numbers' = r.value
                /\ result' = [k \in 1..Len(r.value) |-> "none"]
                /\ calls' = [k \in 1..Len(r.value) |-> <<>>]
                /\ pc' = "get_message"
                /\ UNCHANGED exit_code
    /\ UNCHANGED <<numbers_file, content_file, draft, delete, message>>
    /\ UNCHANGED <<i, success_count, report, callee>>

\* line 351
GetMessage ==
    /\ pc = "get_message"
    /\ LET r == get_message(content_file)
       IN  IF r.exit # 0
           THEN Exit(r.exit) /\ UNCHANGED message
           ELSE /\ message' = r.value
                /\ pc' = "connect"
                /\ UNCHANGED exit_code
    /\ UNCHANGED <<numbers_file, content_file, draft, delete, phone_numbers>>
    /\ UNCHANGED <<i, success_count, report, result, calls, callee>>

\* lines 365-368 and 421-425: the connection is made, or raises (an exit taken
\* inside ViewClient.connectToDeviceOrExit itself is the library's, not main's,
\* and is left out)
Connect ==
    /\ pc = "connect"
    /\ \E ok \in BOOLEAN :
        IF ok THEN pc' = "open_messages" /\ UNCHANGED exit_code
        ELSE Exit(1)
    /\ UNCHANGED <<startup, i, success_count, report, result, calls, callee>>

\* lines 373, 104-107 and 421-425: open_messages starts the app, or raises
OpenMessages ==
    /\ pc = "open_messages"
    /\ \E ok \in BOOLEAN :
        IF ok THEN pc' = "loop" /\ UNCHANGED exit_code
        ELSE Exit(1)
    /\ UNCHANGED <<startup, i, success_count, report, result, calls, callee>>

(***************************************************************************)
(* main: the recipient loop, lines 384-409, and the summary.               *)
(***************************************************************************)
Did(what) == calls' = [calls EXCEPT ![i] = Append(@, what)]

Did2(what, then) == calls' = [calls EXCEPT ![i] = Append(Append(@, what), then)]

\* line 384 and line 388: the next recipient, if any, and its send_sms
LoopNext ==
    /\ pc = "loop"
    /\ IF i < N
       THEN /\ i' = i + 1
            /\ pc' = "send_sms"
            /\ calls' = [calls EXCEPT ![i + 1] = Append(@, "send_sms")]
            /\ Call("send_sms")
       ELSE /\ pc' = "summary"
            /\ UNCHANGED <<i, calls, callee>>
    /\ UNCHANGED <<startup, exit_code, success_count, report, result>>

\* lines 389-393: send_sms returned
SendReturned ==
    /\ pc = "send_sms"
    /\ status = "returned"
    /\ success_count' = success_count + 1
    /\ result' = [result EXCEPT ![i] = "ok"]
    /\ pc' = "go_back"
    /\ Did("go_back_to_main_screen")
    /\ Call("go_back_to_main_screen")
    /\ UNCHANGED <<startup, exit_code, i, report>>

\* SendRaised without the try of line 387: the failure reaches line 421
SendRaisedAborts ==
    /\ pc = "send_sms"
    /\ status = "raised"
    /\ result' = [result EXCEPT ![i] = IF exc = "RuntimeError" THEN "failed" ELSE "error"]
    /\ Exit(1)
    /\ Call("main")
    /\ UNCHANGED <<startup, i, success_count, report, calls>>

\* lines 404-408: send_sms raised
SendRaised ==
    /\ pc = "send_sms"
    /\ status = "raised"
    /\ result' = [result EXCEPT ![i] = IF exc = "RuntimeError" THEN "failed" ELSE "error"]
    /\ pc' = "recover"
    /\ Did2("print_failed", "go_back_to_main_screen")
    /\ Call("go_back_to_main_screen")
    /\ UNCHANGED <<startup, exit_code, i, success_count, report>>

\* lines 400-402: the delay, except after the last recipient
Delay(before) ==
    /\ pc' = "loop"
    /\ calls' = [calls EXCEPT ![i] = IF i < N THEN Append(before, "sleep_delay") ELSE before]
    /\ Call("main")

\* lines 393-402: go_back_to_main_screen returned after a send
GoBackReturned ==
    /\ pc = "go_back"
    /\ status = "returned"
    /\ IF delete
       THEN /\ pc' = "delete_last_sms"
            /\ Did("delete_last_sms")
            /\ Call("delete_last_sms")
       ELSE Delay(calls[i])
    /\ UNCHANGED <<startup, exit_code, i, success_count, report, result>>

\* lines 393 and 404-408: go_back_to_main_screen raised after a send
GoBackRaised ==
    /\ pc = "go_back"
    /\ status = "raised"
    /\ pc' = "recover"
    /\ Did2("print_failed", "go_back_to_main_screen")
    /\ Call("go_back_to_main_screen")
    /\ UNCHANGED <<startup, exit_code, i, success_count, report, result>>

\* lines 397-402: delete_last_sms returned
DeleteReturned ==
    /\ pc = "delete_last_sms"
    /\ status = "returned"
    /\ Delay(calls[i])
    /\ UNCHANGED <<startup, exit_code, i, success_count, report, result>>

\* lines 408-409: the recovery returned
RecoverReturned ==
    /\ pc = "recover"
    /\ status = "returned"
    /\ pc' = "loop"
    /\ Call("main")
    /\ UNCHANGED <<startup, exit_code, i, success_count, report, result, calls>>

\* lines 408 and 421-425: the recovery raised, out of the handler of line 404
RecoverRaised ==
    /\ pc = "recover"
    /\ status = "raised"
    /\ Exit(1)
    /\ Call("main")
    /\ UNCHANGED <<startup, i, success_count, report, result, calls>>

\* lines 411-419
Summary ==
    /\ pc = "summary"
    /\ report' = <<success_count, N>>
    /\ pc' = "done"
    /\ exit_code' = 0
    /\ UNCHANGED <<startup, i, success_count, result, calls, callee>>

(***************************************************************************)
(* send_sms, lines 167-277.                                                *)
(***************************************************************************)
InSendSms(pos) == fn = "send_sms" /\ status = "none" /\ at = pos

\* NextAttempt with the loop running one attempt too many
NextAttemptOneMore(log) ==
    IF attempt + 1 <= max_retries
    THEN /\ attempt' = attempt + 1
         /\ at' = "dump_home"
         /\ ops' = <<>>
         /\ UNCHANGED <<status, exc, retval>>
    ELSE /\ ops' = log
         /\ Propagate("RuntimeError")
         /\ UNCHANGED attempt

\* the `continue` of lines 186, 198 and 275: the next attempt, or line 277
NextAttempt(log) ==
    IF attempt + 1 < max_retries
    THEN /\ attempt' = attempt + 1
         /\ at' = "dump_home"
         /\ ops' = <<>>
         /\ UNCHANGED <<status, exc, retval>>
    ELSE /\ ops' = log
         /\ Propagate("RuntimeError")
         /\ UNCHANGED attempt

\* a device operation inside the try of line 172: it completes, or raises
\* into the handler of line 265
SendOp(from, kind, target, to) ==
    /\ InSendSms(from)
    /\ \E ok \in BOOLEAN :
        IF ok THEN Issue(kind, target, "ok") /\ at' = to
        ELSE Issue(kind, target, "raise") /\ at' = "except"
    /\ UNCHANGED <<fn, status, exc, retval, attempt, suggestions, outcomes, backKeys>>
    /\ UNCHANGED <<startup, orchestrator>>

\* line 174
SendDumpHome == SendOp("dump_home", "dump", "", "find_start_id")

\* lines 177-178
SendFindStartId ==
    /\ InSendSms("find_start_id")
    /\ \E r \in {"found", "missing", "raise"} :
        /\ Issue("find", "start_chat_id", r)
        /\ at' = IF r = "found" THEN "tap_start"
                 ELSE IF r = "missing" THEN "find_start_text"
                 ELSE "except"
    /\ UNCHANGED <<fn, status, exc, retval, attempt, suggestions, outcomes, backKeys>>
    /\ UNCHANGED <<startup, orchestrator>>

\* lines 180-186
SendFindStartText ==
    /\ InSendSms("find_start_text")
    /\ \E r \in {"found", "missing", "raise"} :
        IF r = "missing"
        THEN /\ outcomes' = Append(outcomes, "no_start_chat")
             /\ backKeys' = 0
             /\ NextAttempt(Append(ops, Op("find", "start_chat_text", r)))
        ELSE /\ Issue("find", "start_chat_text", r)
             /\ at' = IF r = "found" THEN "tap_start" ELSE "except"
             /\ UNCHANGED <<status, exc, retval, attempt, outcomes, backKeys>>
    /\ UNCHANGED <<fn, suggestions>>
    /\ UNCHANGED <<startup, orchestrator>>

\* line 189
SendTapStart == SendOp("tap_start", "tap", "start_chat", "dump_new_chat")

\* SendDumpNewChat without the snapshot: the lookup reads the old one
SendDumpNewChatSkipped ==
    /\ InSendSms("dump_new_chat")
    /\ at' = "find_contact_field"
    /\ UNCHANGED <<fn, status, exc, retval, attempt, suggestions, ops, outcomes, backKeys>>
    /\ UNCHANGED <<startup, orchestrator>>

\* line 193
SendDumpNewChat == SendOp("dump_new_chat", "dump", "", "find_contact_field")

\* lines 194-198
SendFindContactField ==
    /\ InSendSms("find_contact_field")
    /\ \E r \in {"found", "missing", "raise"} :
        IF r = "missing"
        THEN /\ outcomes' = Append(outcomes, "no_contact_field")
             /\ backKeys' = 0
             /\ NextAttempt(Append(ops, Op("find", "contact_field", r)))
        ELSE /\ Issue("find", "contact_field", r)
             /\ at' = IF r = "found" THEN "tap_contact_field" ELSE "except"
             /\ UNCHANGED <<status, exc, retval, attempt, outcomes, backKeys>>
    /\ UNCHANGED <<fn, suggestions>>
    /\ UNCHANGED <<startup, orchestrator>>

\* line 202
SendTapContactField == SendOp("tap_contact_field", "tap", "contact_field", "key_select_all")

\* line 206
SendKeySelectAll == SendOp("key_select_all", "key", "CTRL_A", "text_number")

\* line 208
SendTextNumber == SendOp("text_number", "text", "phone_number", "key_enter")

\* line 213
SendKeyEnter == SendOp("key_enter", "key", "ENTER", "dump_suggestions")

\* line 217
SendDumpSuggestions == SendOp("dump_suggestions", "dump", "", "find_suggestion_list")

\* lines 218-219
SendFindSuggestionList ==
    /\ InSendSms("find_suggestion_list")
    /\ \E r \in {"found", "missing", "raise"} :
        /\ Issue("find", "suggestion_list", r)
        /\ at' = IF r = "found" THEN "find_clickable"
                 ELSE IF r = "missing" THEN "dump_conversation"
                 ELSE "except"
    /\ UNCHANGED <<fn, status, exc, retval, attempt, suggestions, outcomes, backKeys>>
    /\ UNCHANGED <<startup, orchestrator>>

\* what the text of a clickable element is to lines 223-224: None or empty,
\* holding phone_number[-10:], holding "Send to", or another text
ElementTexts == {"none", "has_number", "has_send_to", "other"}

\* lines 223-224
Matches(text) == text # "none" /\ (text = "has_number" \/ text = "has_send_to")

\* FirstMatch taking the last element that matches
LastMatch(list) ==
    IF \E k \in 1..Len(list) : Matches(list[k])
    THEN CHOOSE k \in 1..Len(list) :
            Matches(list[k]) /\ \A j \in (k + 1)..Len(list) : ~Matches(list[j])
    ELSE 0

\* lines 222-228: the first element of the list that matches, 0 when none does
FirstMatch(list) ==
    IF \E k \in 1..Len(list) : Matches(list[k])
    THEN CHOOSE k \in 1..Len(list) :
            Matches(list[k]) /\ \A j \in 1..(k - 1) : ~Matches(list[j])
    ELSE 0

\* line 221
SendFindClickable ==
    /\ InSendSms("find_clickable")
    /\ \/ \E list \in SeqsUpTo(ElementTexts, MaxSuggestions) :
            /\ suggestions' = list
            /\ Issue("find", "clickable", "found")
            /\ at' = "pick_suggestion"
       \/ /\ Issue("find", "clickable", "raise")
          /\ at' = "except"
          /\ UNCHANGED suggestions
    /\ UNCHANGED <<fn, status, exc, retval, attempt, outcomes, backKeys>>
    /\ UNCHANGED <<startup, orchestrator>>

\* lines 222-232: the tap on the first match, or the Enter of the for's else;
\* the list is not read again
SendPickSuggestion ==
    /\ InSendSms("pick_suggestion")
    /\ \E r \in {"ok", "raise"} :
        /\ IF FirstMatch(suggestions) > 0
           THEN ops' = Append(ops, <<"tap", "suggestion", r, FirstMatch(suggestions)>>)
           ELSE Issue("key", "ENTER", r)
        /\ at' = IF r = "ok" THEN "dump_conversation" ELSE "except"
    /\ suggestions' = <<>>
    /\ UNCHANGED <<fn, status, exc, retval, attempt, outcomes, backKeys>>
    /\ UNCHANGED <<startup, orchestrator>>

\* line 237
SendDumpConversation == SendOp("dump_conversation", "dump", "", "text_message")

\* SendTextMessage with the draft option ignored
SendTextMessageAlwaysSends ==
    /\ InSendSms("text_message")
    /\ \E r \in {"ok", "raise"} :
        /\ Issue("text", "message", r)
        /\ at' = IF r = "raise" THEN "except" ELSE "dump_send"
    /\ UNCHANGED <<fn, status, exc, retval, attempt, suggestions, outcomes, backKeys>>
    /\ UNCHANGED <<startup, orchestrator>>

\* lines 241-244 and 260-263: with draft the attempt ends here, returning True
SendTextMessage ==
    /\ InSendSms("text_message")
    /\ \E r \in {"ok", "raise"} :
        /\ Issue("text", "message", r)
        /\ IF r = "raise" THEN at' = "except" /\ UNCHANGED <<status, exc, retval>>
           ELSE IF draft THEN Return("True")
           ELSE at' = "dump_send" /\ UNCHANGED <<status, exc, retval>>
    /\ UNCHANGED <<fn, attempt, suggestions, outcomes, backKeys>>
    /\ UNCHANGED <<startup, orchestrator>>

\* line 247
SendDumpSend == SendOp("dump_send", "dump", "", "find_send")

\* lines 248-250
SendFindSend ==
    /\ InSendSms("find_send")
    /\ \E r \in {"found", "missing", "raise"} :
        /\ Issue("find", "send", r)
        /\ at' = IF r = "found" THEN "tap_send"
                 ELSE IF r = "missing" THEN "key_enter_send"
                 ELSE "except"
    /\ UNCHANGED <<fn, status, exc, retval, attempt, suggestions, outcomes, backKeys>>
    /\ UNCHANGED <<startup, orchestrator>>

\* SendAction without the return of line 263: the loop runs on
SendActionNoReturn(from, kind, target) ==
    /\ InSendSms(from)
    /\ \E r \in {"ok", "raise"} :
        /\ Issue(kind, target, r)
        /\ at' = IF r = "ok" THEN "dump_home" ELSE "except"
    /\ UNCHANGED <<fn, status, exc, retval, attempt, suggestions, outcomes, backKeys>>
    /\ UNCHANGED <<startup, orchestrator>>

\* a step-6 send action, then lines 258-263
SendAction(from, kind, target) ==
    /\ InSendSms(from)
    /\ \E r \in {"ok", "raise"} :
        /\ Issue(kind, target, r)
        /\ IF r = "ok" THEN Return("True")
           ELSE at' = "except" /\ UNCHANGED <<status, exc, retval>>
    /\ UNCHANGED <<fn, attempt, suggestions, outcomes, backKeys>>
    /\ UNCHANGED <<startup, orchestrator>>

\* line 252
SendTapSend == SendAction("tap_send", "tap", "send")

\* line 256
SendKeyEnterSend == SendAction("key_enter_send", "key", "ENTER_send")

\* SendExcept without the back keys before a retry
SendExceptNoBackKeys ==
    /\ InSendSms("except")
    /\ outcomes' = Append(outcomes, "exception")
    /\ backKeys' = 0
    /\ NextAttempt(ops)
    /\ UNCHANGED <<fn, suggestions>>
    /\ UNCHANGED <<startup, orchestrator>>

\* lines 265-270 and 275: the handler, entered with the exception caught
SendExcept ==
    /\ InSendSms("except")
    /\ outcomes' = Append(outcomes, "exception")
    /\ backKeys' = 0
    /\ IF attempt < max_retries - 1
       THEN at' = "back_keys" /\ UNCHANGED <<status, exc, retval, attempt, ops>>
       ELSE NextAttempt(ops)
    /\ UNCHANGED <<fn, suggestions>>
    /\ UNCHANGED <<startup, orchestrator>>

\* lines 271-275: one back key of the three; one that raises leaves send_sms
SendBackKey ==
    /\ InSendSms("back_keys")
    /\ backKeys' = backKeys + 1
    /\ \E r \in {"ok", "raise"} :
        IF r = "raise"
        THEN /\ Issue("key", "BACK", r)
             /\ Propagate("DeviceError")
             /\ UNCHANGED attempt
        ELSE IF backKeys + 1 < 3
        THEN /\ Issue("key", "BACK", r)
             /\ UNCHANGED <<at, status, exc, retval, attempt>>
        ELSE NextAttempt(Append(ops, Op("key", "BACK", r)))
    /\ UNCHANGED <<fn, suggestions, outcomes>>
    /\ UNCHANGED <<startup, orchestrator>>

send_sms ==
    \/ SendDumpHome
    \/ SendFindStartId
    \/ SendFindStartText
    \/ SendTapStart
    \/ SendDumpNewChat
    \/ SendFindContactField
    \/ SendTapContactField
    \/ SendKeySelectAll
    \/ SendTextNumber
    \/ SendKeyEnter
    \/ SendDumpSuggestions
    \/ SendFindSuggestionList
    \/ SendFindClickable
    \/ SendPickSuggestion
    \/ SendDumpConversation
    \/ SendTextMessage
    \/ SendDumpSend
    \/ SendFindSend
    \/ SendTapSend
    \/ SendKeyEnterSend
    \/ SendExcept
    \/ SendBackKey

(***************************************************************************)
(* go_back_to_main_screen, lines 110-164.                                  *)
(***************************************************************************)
InGoBack(pos) == fn = "go_back_to_main_screen" /\ status = "none" /\ at = pos

\* a device operation inside the try of line 112: it completes, or raises
\* into the handler of line 156
GoBackOp(from, kind, target, to) ==
    /\ InGoBack(from)
    /\ \E ok \in BOOLEAN :
        IF ok THEN Issue(kind, target, "ok") /\ at' = to
        ELSE Issue(kind, target, "raise") /\ at' = "fallback_first"
    /\ UNCHANGED <<fn, status, exc, retval, attempt, suggestions, outcomes, backKeys>>
    /\ UNCHANGED <<startup, orchestrator>>

\* a lookup of the Back elements: the tap when there is one, else the key
GoBackFind(from, toTap, toKey) ==
    /\ InGoBack(from)
    /\ \E r \in {"found", "missing", "raise"} :
        /\ Issue("find", "Back", r)
        /\ at' = IF r = "found" THEN toTap
                 ELSE IF r = "missing" THEN toKey
                 ELSE "fallback_first"
    /\ UNCHANGED <<fn, status, exc, retval, attempt, suggestions, outcomes, backKeys>>
    /\ UNCHANGED <<startup, orchestrator>>

\* line 116
GoBackDumpFirst == GoBackOp("dump_first", "dump", "", "find_back_first")

\* lines 117-119
GoBackFindFirst == GoBackFind("find_back_first", "tap_back_first", "key_back_first")

\* line 121
GoBackTapFirst == GoBackOp("tap_back_first", "tap", "Back", "dump_second")

\* line 125
GoBackKeyFirst == GoBackOp("key_back_first", "key", "BACK", "dump_second")

\* line 129
GoBackDumpSecond == GoBackOp("dump_second", "dump", "", "find_back_second")

\* lines 130-132
GoBackFindSecond == GoBackFind("find_back_second", "tap_back_second", "key_back_second")

\* line 134
GoBackTapSecond == GoBackOp("tap_back_second", "tap", "Back", "dump_landmark")

\* line 138
GoBackKeySecond == GoBackOp("key_back_second", "key", "BACK", "dump_landmark")

\* line 142
GoBackDumpLandmark == GoBackOp("dump_landmark", "dump", "", "find_landmark_id")

\* lines 143-144 and 149-151
GoBackFindLandmarkId ==
    /\ InGoBack("find_landmark_id")
    /\ \E r \in {"found", "missing", "raise"} :
        /\ Issue("find", "start_chat_id", r)
        /\ IF r = "found" THEN Return("True")
           ELSE /\ at' = IF r = "missing" THEN "find_landmark_text" ELSE "fallback_first"
                /\ UNCHANGED <<status, exc, retval>>
    /\ UNCHANGED <<fn, attempt, suggestions, outcomes, backKeys>>
    /\ UNCHANGED <<startup, orchestrator>>

\* GoBackFindLandmarkText reporting success without the landmark
GoBackFindLandmarkTextAlwaysTrue ==
    /\ InGoBack("find_landmark_text")
    /\ \E r \in {"found", "missing", "raise"} :
        /\ Issue("find", "start_chat_text", r)
        /\ IF r = "raise"
           THEN at' = "fallback_first" /\ UNCHANGED <<status, exc, retval>>
           ELSE Return("True")
    /\ UNCHANGED <<fn, attempt, suggestions, outcomes, backKeys>>
    /\ UNCHANGED <<startup, orchestrator>>

\* lines 145-154
GoBackFindLandmarkText ==
    /\ InGoBack("find_landmark_text")
    /\ \E r \in {"found", "missing", "raise"} :
        /\ Issue("find", "start_chat_text", r)
        /\ IF r = "found" THEN Return("True")
           ELSE IF r = "missing" THEN Return("False")
           ELSE at' = "fallback_first" /\ UNCHANGED <<status, exc, retval>>
    /\ UNCHANGED <<fn, attempt, suggestions, outcomes, backKeys>>
    /\ UNCHANGED <<startup, orchestrator>>

\* lines 156-161: the handler's first back key; raising, it leaves the function
GoBackFallbackFirst ==
    /\ InGoBack("fallback_first")
    /\ \E r \in {"ok", "raise"} :
        /\ Issue("key", "BACK_fallback", r)
        /\ IF r = "ok" THEN at' = "fallback_second" /\ UNCHANGED <<status, exc, retval>>
           ELSE Propagate("DeviceError")
    /\ UNCHANGED <<fn, attempt, suggestions, outcomes, backKeys>>
    /\ UNCHANGED <<startup, orchestrator>>

\* lines 162-164
GoBackFallbackSecond ==
    /\ InGoBack("fallback_second")
    /\ \E r \in {"ok", "raise"} :
        /\ Issue("key", "BACK_fallback", r)
        /\ IF r = "ok" THEN Return("False") ELSE Propagate("DeviceError")
    /\ UNCHANGED <<fn, attempt, suggestions, outcomes, backKeys>>
    /\ UNCHANGED <<startup, orchestrator>>

go_back_to_main_screen ==
    \/ GoBackDumpFirst
    \/ GoBackFindFirst
    \/ GoBackTapFirst
    \/ GoBackKeyFirst
    \/ GoBackDumpSecond
    \/ GoBackFindSecond
    \/ GoBackTapSecond
    \/ GoBackKeySecond
    \/ GoBackDumpLandmark
    \/ GoBackFindLandmarkId
    \/ GoBackFindLandmarkText
    \/ GoBackFallbackFirst
    \/ GoBackFallbackSecond

(***************************************************************************)
(* delete_last_sms, lines 280-316.  Its handler only prints, so every path *)
(* returns None.                                                           *)
(***************************************************************************)
InDelete(pos) == fn = "delete_last_sms" /\ status = "none" /\ at = pos

\* a device operation inside the try of line 282: it completes, or raises
\* into the handler of lines 315-316, which returns
DeleteOp(from, kind, target, to) ==
    /\ InDelete(from)
    /\ \E ok \in BOOLEAN :
        /\ Issue(kind, target, IF ok THEN "ok" ELSE "raise")
        /\ IF ok /\ to # "end"
           THEN at' = to /\ UNCHANGED <<status, exc, retval>>
           ELSE Return("None")
    /\ UNCHANGED <<fn, attempt, suggestions, outcomes, backKeys>>
    /\ UNCHANGED <<startup, orchestrator>>

\* a lookup by id: found, or missing (the warning and the return), or raising
DeleteFind(from, target, to) ==
    /\ InDelete(from)
    /\ \E r \in {"found", "missing", "raise"} :
        /\ Issue("find", target, r)
        /\ IF r = "found"
           THEN at' = to /\ UNCHANGED <<status, exc, retval>>
           ELSE Return("None")
    /\ UNCHANGED <<fn, attempt, suggestions, outcomes, backKeys>>
    /\ UNCHANGED <<startup, orchestrator>>

\* line 283
DeleteDumpList == DeleteOp("dump_list", "dump", "", "find_last_chat")

\* lines 286-289
DeleteFindLastChat == DeleteFind("find_last_chat", "last_chat", "get_xy")

\* line 292
DeleteGetXY == DeleteOp("get_xy", "getXY", "last_chat", "drag")

\* line 293
DeleteDrag == DeleteOp("drag", "drag", "last_chat", "dump_actions")

\* line 297
DeleteDumpActions == DeleteOp("dump_actions", "dump", "", "find_delete")

\* lines 298-299 and 312-313
DeleteFindDelete == DeleteFind("find_delete", "delete", "tap_delete")

\* line 300
DeleteTapDelete == DeleteOp("tap_delete", "tap", "delete", "dump_confirm")

\* line 304
DeleteDumpConfirm == DeleteOp("dump_confirm", "dump", "", "find_confirm")

\* lines 305-306 and 310-311
DeleteFindConfirm == DeleteFind("find_confirm", "confirm", "tap_confirm")

\* lines 307-309
DeleteTapConfirm == DeleteOp("tap_confirm", "tap", "confirm", "end")

delete_last_sms ==
    \/ DeleteDumpList
    \/ DeleteFindLastChat
    \/ DeleteGetXY
    \/ DeleteDrag
    \/ DeleteDumpActions
    \/ DeleteFindDelete
    \/ DeleteTapDelete
    \/ DeleteDumpConfirm
    \/ DeleteFindConfirm
    \/ DeleteTapConfirm

(***************************************************************************)
(* The specifications.                                                     *)
(***************************************************************************)
main ==
    \/ GetPhoneNumbers
    \/ GetMessage
    \/ Connect
    \/ OpenMessages
    \/ LoopNext
    \/ SendReturned
    \/ SendRaised
    \/ GoBackReturned
    \/ GoBackRaised
    \/ DeleteReturned
    \/ RecoverReturned
    \/ RecoverRaised
    \/ Summary

Next == main \/ send_sms \/ go_back_to_main_screen \/ delete_last_sms

\* a run of main
Spec == Init /\ [][Next]_vars

NextLoader == GetPhoneNumbers \/ GetMessage

\* the two loaders alone, over every file within the bounds
SpecLoader == InitLoader /\ [][NextLoader]_vars

(***************************************************************************)
(* Properties.                                                             *)
(***************************************************************************)
Last(s) == s[Len(s)]

\* main has ended: after the summary, or by sys.exit
Ended == pc \in {"done", "exit"}

\* main is done with recipient r
Past(r) == r < i \/ (r = i /\ pc \in {"loop", "summary", "done", "exit"})

Recipients == 1..N

Succeeded == { r \in Recipients : result[r] = "ok" }

\* C1: a recipient whose send_sms raised its failure after 3 attempts does not
\* stop the loop: once main has ended, send_sms has been invoked for every
\* recipient after it, and the summary reports as many successes as there are
\* recipients whose send_sms returned.
C1_FailureDoesNotStopLoop ==
    (Ended /\ \E r \in Recipients : result[r] = "failed")
        => /\ \A r \in Recipients : calls[r] # <<>> /\ calls[r][1] = "send_sms"
           /\ report = <<Cardinality(Succeeded), N>>

\* C2: send_sms makes at most 3 attempts; it raises its failure only when
\* exactly 3 attempts have failed; and when the start-chat element was absent
\* in attempts 1 and 2 and the 3rd attempt found it, with no step raising and
\* the contact field found, send_sms returns True from the 3rd attempt.
C2_CleanThirdAttempt ==
    /\ \E k \in DOMAIN ops :
        ops[k][1] = "find" /\ ops[k][2] \in {"start_chat_id", "start_chat_text"}
                           /\ ops[k][3] = "found"
    /\ \A k \in DOMAIN ops :
        /\ ops[k][3] # "raise"
        /\ ~(ops[k][2] = "contact_field" /\ ops[k][3] = "missing")

C2_BoundedRetry ==
    fn = "send_sms" =>
        /\ attempt + 1 <= 3
        /\ Len(outcomes) <= 3
        /\ (status = "raised" /\ exc = "RuntimeError")
                => Len(outcomes) = 3 /\ attempt + 1 = 3
        /\ ( /\ status # "none"
             /\ Len(outcomes) >= 2
             /\ outcomes[1] = "no_start_chat"
             /\ outcomes[2] = "no_start_chat"
             /\ C2_CleanThirdAttempt )
                => status = "returned" /\ retval = "True" /\ attempt + 1 = 3

\* C2 happens: send_sms returned from its 3rd attempt after two attempts that
\* did not find the start-chat element
C2_Witness ==
    /\ fn = "send_sms"
    /\ status = "returned"
    /\ outcomes = <<"no_start_chat", "no_start_chat">>

\* an attempt that ended in a caught exception has been left: the next
\* attempt is under way, or the final failure is raised
C3_Proceeded ==
    /\ fn = "send_sms"
    /\ outcomes # <<>>
    /\ Last(outcomes) = "exception"
    /\ \/ status = "none" /\ at \notin {"except", "back_keys"} /\ attempt = Len(outcomes)
       \/ status = "raised" /\ exc = "RuntimeError"

\* C3 as claimed: after every attempt that ended in a caught exception, the
\* 3rd included, three raw back-key events have been issued before send_sms
\* proceeds to the next attempt or raises its failure.
C3_ThreeBackKeysAfterEveryAttempt == C3_Proceeded => backKeys = 3

\* C3 as amended: after the 1st or 2nd attempt ended in a caught exception
\* the next attempt starts only once three raw back-key events have been
\* issued, and a back-key command that raises ends send_sms with that
\* exception; after the 3rd attempt no back-key event is issued before the
\* final failure is raised.
C3_BackKeysBeforeRetryOnly ==
    fn = "send_sms" =>
        /\ (C3_Proceeded /\ status = "none") => backKeys = 3
        /\ (C3_Proceeded /\ status = "raised")
                => /\ backKeys = 0
                   /\ \A k \in DOMAIN ops : ops[k][2] # "BACK"
        /\ (status = "raised" /\ exc = "DeviceError")
                => /\ Last(ops) = Op("key", "BACK", "raise")
                   /\ backKeys \in 1..3
                   /\ Last(outcomes) = "exception"
                   /\ Len(outcomes) < 3

\* C3 happens: all three attempts ended in a caught exception and the final
\* failure is raised
C3_Witness ==
    /\ fn = "send_sms"
    /\ status = "raised"
    /\ exc = "RuntimeError"
    /\ outcomes = <<"exception", "exception", "exception">>

\* C4: the only exception send_sms ever propagates to its caller is the
\* failure raised after the retry loop is exhausted.
C4_OnlyFinalFailurePropagates ==
    (fn = "send_sms" /\ status = "raised") => exc = "RuntimeError"

\* C5: no error while processing a recipient aborts the run: the exit with
\* code 1 of lines 421-425 is never reached from inside the loop body.
C5_NoAbortInsideLoop ==
    pc = "exit" => i = 0

\* a lookup or a tap of the send element, or the Enter that stands in for it
IsSendStep(op) == op[2] \in {"send", "ENTER_send"}

\* C6: with draft set, send_sms never looks up or taps the send element, in
\* any attempt, and the injection of the message text is the last device
\* operation before it returns True.
C6_DraftNeverSends ==
    (draft /\ fn = "send_sms") =>
        /\ at \notin {"dump_send", "find_send", "tap_send", "key_enter_send"}
        /\ \A k \in DOMAIN ops : ~IsSendStep(ops[k])
        /\ \A k \in DOMAIN ops :
                ops[k] = Op("text", "message", "ok") => k = Len(ops)
        /\ (status = "returned")
                => /\ retval = "True"
                   /\ ops # <<>>
                   /\ Last(ops) = Op("text", "message", "ok")

\* C6 happens: send_sms returned in draft mode
C6_Witness ==
    /\ draft
    /\ fn = "send_sms"
    /\ status = "returned"

Has(seq, x) == \E k \in DOMAIN seq : seq[k] = x

\* C7: with delete set, delete_last_sms has been invoked for every recipient
\* main is done with whose send_sms returned; without it, delete_last_sms is
\* never invoked; and delete_last_sms never raises, whichever element is
\* missing.
C7_DeleteAfterEverySuccess ==
    /\ delete => \A r \in Recipients :
                    (Past(r) /\ result[r] = "ok") => Has(calls[r], "delete_last_sms")
    /\ ~delete => /\ fn # "delete_last_sms"
                  /\ \A r \in Recipients : ~Has(calls[r], "delete_last_sms")
    /\ fn = "delete_last_sms" => status # "raised"
    /\ (fn = "delete_last_sms" /\ ops # <<>> /\ Last(ops)[3] = "missing")
            => status = "returned"

\* a navigation action: a tap on a Back element or a raw back key
IsNavigation(op) ==
    \/ op[1] = "tap" /\ op[2] = "Back"
    \/ op[1] = "key" /\ op[2] \in {"BACK", "BACK_fallback"}

IsLandmarkLookup(op) ==
    op[1] = "find" /\ op[2] \in {"start_chat_id", "start_chat_text"}

\* the navigation actions among the first n operations of the call
NavigationsBefore(n) ==
    Cardinality({ k \in 1..n : IsNavigation(ops[k]) })

\* C8: in go_back_to_main_screen at most 2 navigation actions have been
\* issued when the landmark is looked up, and True is returned only when the
\* landmark was found in the snapshot taken after the second navigation.
C8_TwoNavigationsThenLandmark ==
    fn = "go_back_to_main_screen" =>
        /\ \A k \in DOMAIN ops :
                IsLandmarkLookup(ops[k]) => NavigationsBefore(k - 1) <= 2
        /\ (status = "returned" /\ retval = "True")
                => /\ IsLandmarkLookup(Last(ops))
                   /\ Last(ops)[3] = "found"
                   /\ \E d \in DOMAIN ops :
                        /\ ops[d] = Op("dump", "", "ok")
                        /\ NavigationsBefore(d - 1) = 2
                        /\ \A k \in (d + 1)..Len(ops) : IsLandmarkLookup(ops[k])

\* C8 happens: go_back_to_main_screen returned True
C8_Witness ==
    /\ fn = "go_back_to_main_screen"
    /\ status = "returned"
    /\ retval = "True"

NumberLines == numbers_file.lines

\* the lines of numbers.txt that parse as a phone number once stripped
ParseableLines == { k \in DOMAIN NumberLines : Parses(Strip(NumberLines[k])) }

\* what readline() gives: the first line, or nothing at the end of the file
FirstLine == IF content_file.lines = <<>> THEN <<>> ELSE content_file.lines[1]

Blank(line) == \A k \in DOMAIN line : line[k] = " "

\* m is line without the whitespace at its two ends
IsStripOf(m, line) ==
    /\ m # <<>>
    /\ m[1] # " "
    /\ m[Len(m)] # " "
    /\ \E a \in 0..Len(line) :
        /\ a + Len(m) <= Len(line)
        /\ SubSeq(line, a + 1, a + Len(m)) = m
        /\ \A k \in 1..a : line[k] = " "
        /\ \A k \in (a + Len(m) + 1)..Len(line) : line[k] = " "

\* C9: get_phone_numbers exits with 1 when numbers.txt is missing and with 2
\* when it exists and no line parses; get_message exits with 1 when
\* content.txt is missing, with 3 when its first line is empty or blank, and
\* otherwise returns that first line stripped.
C9_StartupExitCodes ==
    /\ pc # "get_phone_numbers" =>
        /\ ~numbers_file.exists => (pc = "exit" /\ exit_code = 1)
        /\ (numbers_file.exists /\ ParseableLines = {})
                => (pc = "exit" /\ exit_code = 2)
    /\ (pc \notin {"get_phone_numbers", "get_message"} /\ phone_numbers # <<>>) =>
        /\ ~content_file.exists => (pc = "exit" /\ exit_code = 1)
        /\ (content_file.exists /\ Blank(FirstLine))
                => (pc = "exit" /\ exit_code = 3)
        /\ (content_file.exists /\ ~Blank(FirstLine))
                => /\ pc = "connect"
                   /\ exit_code = -1
                   /\ IsStripOf(message, FirstLine)

\* C9 happens: both loaders ran and get_message returned a line that had
\* whitespace to strip
C9_Witness ==
    /\ pc = "connect"
    /\ message # FirstLine

\* C10: from a numbers.txt with at least one line that parses,
\* get_phone_numbers returns a non-empty list without duplicates, sorted
\* ascending, of exactly the canonical forms of the lines that parse; the
\* other lines are dropped and cause no exit.
C10_SortedUniqueCanonical ==
    (pc # "get_phone_numbers" /\ numbers_file.exists /\ ParseableLines # {}) =>
        /\ phone_numbers # <<>>
        /\ exit_code # 2
        /\ \A j, k \in DOMAIN phone_numbers :
                j < k => /\ phone_numbers[j] # phone_numbers[k]
                         /\ StrLess(phone_numbers[j], phone_numbers[k])
        /\ { phone_numbers[k] : k \in DOMAIN phone_numbers }
                = { E164(Strip(NumberLines[k])) : k \in ParseableLines }

\* C10 happens: a list of two numbers was returned from a file in which the
\* greater number came first and a line that is not blank did not parse
C10_Witness ==
    /\ pc = "get_message"
    /\ Len(phone_numbers) = 2
    /\ \E k \in DOMAIN NumberLines \ ParseableLines : Strip(NumberLines[k]) # <<>>
    /\ \E j, k \in ParseableLines :
            j < k /\ StrLess(E164(Strip(NumberLines[k])), E164(Strip(NumberLines[j])))

\* main is past startup validation and the device connection
Connected == pc \notin {"get_phone_numbers", "get_message", "connect", "open_messages"}

\* C11: once validation and connection have succeeded, a send_sms that raises
\* never produces an exit by itself: main goes on to the recovery and, when
\* that returns, to the loop; the only exit from inside the loop is taken
\* when the recovery navigation itself raises; and main finishes after the
\* summary with exit code 0.
C11_SendFailuresAloneDoNotExit ==
    [][ /\ (pc = "send_sms" /\ status = "raised")
                => (pc' = "recover" /\ exit_code' = exit_code)
        /\ (pc = "recover" /\ status = "returned")
                => (pc' = "loop" /\ exit_code' = exit_code)
        /\ (Connected /\ pc' = "exit")
                => /\ pc = "recover"
                   /\ fn = "go_back_to_main_screen"
                   /\ status = "raised"
        /\ pc' = "done"
                => /\ pc = "summary"
                   /\ exit_code' = 0
                   /\ report' = <<success_count, N>> ]_vars

\* C11 happens: every send_sms of a run of two recipients raised its failure
\* and main finished after the summary
C11_Witness ==
    /\ pc = "done"
    /\ exit_code = 0
    /\ N = 2
    /\ \A r \in Recipients : result[r] = "failed"
    /\ report = <<0, 2>>

IsSuggestionTap(op) == op[1] = "tap" /\ op[2] = "suggestion"

IsFallbackEnter(op) == op[1] = "key" /\ op[2] = "ENTER" /\ op[4] = 0

\* the text holds the last 10 characters of the recipient, or "Send to"
TextMatches(text) == text \in {"has_number", "has_send_to"}

\* the operations of the attempt from the lookup of the suggestion list on:
\* found, the lookup of the clickable elements and then one tap or one Enter,
\* and no second one; missing, the snapshot of step 5 at once
C13_OneActionInLog ==
    \A k \in DOMAIN ops :
        (ops[k][1] = "find" /\ ops[k][2] = "suggestion_list") =>
            /\ (ops[k][3] = "missing" /\ k < Len(ops))
                    => ops[k + 1][1] = "dump"
            /\ (ops[k][3] = "found" /\ k < Len(ops))
                    => ops[k + 1][1] = "find" /\ ops[k + 1][2] = "clickable"
            /\ (ops[k][3] = "found" /\ k + 1 < Len(ops) /\ ops[k + 1][3] = "found")
                    => IsSuggestionTap(ops[k + 2]) \/ IsFallbackEnter(ops[k + 2])
            /\ \A j \in (k + 1)..Len(ops) :
                    (IsSuggestionTap(ops[j]) \/ IsFallbackEnter(ops[j]))
                        => ops[k][3] = "found" /\ j = k + 2

\* the step taken with the list of clickable elements in hand
C13_PickStep ==
    (fn = "send_sms" /\ status = "none" /\ at = "pick_suggestion") =>
        /\ Len(ops') = Len(ops) + 1
        /\ LET op == ops'[Len(ops')]
               matching == { k \in DOMAIN suggestions : TextMatches(suggestions[k]) }
           IN  IF matching # {}
               THEN /\ IsSuggestionTap(op)
                    /\ op[4] \in matching
                    /\ \A k \in matching : op[4] <= k
               ELSE IsFallbackEnter(op)

\* C13: in step 4 of an attempt, with the suggestion list present exactly one
\* action is performed: a tap on the first clickable element, in snapshot
\* order, whose text matches, or, when none matches or there is none, one
\* fallback Enter; with the list absent neither is performed.
C13_ExactlyOneSuggestionAction ==
    [](fn = "send_sms" => C13_OneActionInLog) /\ [][C13_PickStep]_vars

\* C13 happens: the second of two clickable elements was the first to match
\* and was tapped
C13_Witness ==
    /\ fn = "send_sms"
    /\ \E k \in DOMAIN ops : IsSuggestionTap(ops[k]) /\ ops[k][3] = "ok" /\ ops[k][4] = 2

\* what main does, in order, for a recipient r whose send_sms returned
ExpectedCalls(r) ==
    <<"send_sms", "go_back_to_main_screen">>
        \o (IF delete THEN <<"delete_last_sms">> ELSE <<>>)
        \o (IF r < N THEN <<"sleep_delay">> ELSE <<>>)

\* C14: for every recipient whose send_sms returned, main performs, before
\* the next recipient: go_back_to_main_screen, then delete_last_sms exactly
\* when delete is set, then the delay exactly when the recipient is not the
\* last; the delay never follows the last recipient.
C14_OrderAfterSuccess ==
    /\ \A r \in Recipients :
            (Past(r) /\ result[r] = "ok") => calls[r] = ExpectedCalls(r)
    /\ N > 0 => ~Has(calls[N], "sleep_delay")

\* the lookups that give the handle an operation uses
HandleLookups(op) ==
    IF op[2] = "start_chat" THEN {"start_chat_id", "start_chat_text"}
    ELSE IF op[2] = "suggestion" THEN {"clickable"}
    ELSE {op[2]}

UsesHandle(op) == op[1] \in {"tap", "getXY"}

\* C15: in send_sms, go_back_to_main_screen and delete_last_sms, a handle
\* that is tapped or whose coordinates are read was found by a lookup in the
\* most recent snapshot, and nothing but lookups was issued between that
\* snapshot and the use.
C15_HandleFromLatestSnapshot ==
    \A k \in DOMAIN ops :
        UsesHandle(ops[k]) =>
            \E d \in 1..(k - 1) :
                /\ ops[d] = Op("dump", "", "ok")
                /\ \A j \in (d + 1)..(k - 1) : ops[j][1] = "find"
                /\ \E j \in (d + 1)..(k - 1) :
                        /\ ops[j][2] \in HandleLookups(ops[k])
                        /\ ops[j][3] = "found"

\* C15 happens: delete_last_sms tapped the confirm element, its third handle
C15_Witness ==
    /\ fn = "delete_last_sms"
    /\ ops # <<>>
    /\ Last(ops) = Op("tap", "confirm", "ok")

\* a step of the main path of go_back_to_main_screen raised
MainPathRaised ==
    \E k \in DOMAIN ops : ops[k][3] = "raise" /\ ops[k][2] # "BACK_fallback"

FallbackKeys == { k \in DOMAIN ops : ops[k][2] = "BACK_fallback" }

\* C16: when a step of the main path of go_back_to_main_screen raises, the
\* function ends by returning False, never by raising, having issued exactly
\* two raw back keys after the exception and at most 4 navigation actions in
\* the whole call.
C16_FallbackReturnsFalse ==
    (fn = "go_back_to_main_screen" /\ status # "none" /\ MainPathRaised)
        => /\ status = "returned"
           /\ retval = "False"
           /\ Cardinality(FallbackKeys) = 2
           /\ NavigationsBefore(Len(ops)) <= 4

\* how often main invoked send_sms for recipient r
SendCalls(r) == Cardinality({ k \in DOMAIN calls[r] : calls[r][k] = "send_sms" })

\* C17: a run over N recipients ends with the summary, send_sms invoked
\* exactly once per recipient, in ascending order of the list, each call
\* making at most 3 attempts (3*N in all).
C17_RunEndsWithSummary ==
    /\ \A r \in Recipients : (calls[r] # <<>>) <=> (r <= i)
    /\ \A r \in Recipients : SendCalls(r) <= 1
    /\ fn = "send_sms" => attempt + 1 <= 3
    /\ (Ended /\ i >= 1)
            => /\ pc = "done"
               /\ report # <<>>
               /\ i = N
               /\ \A r \in Recipients : SendCalls(r) = 1

ReportedFailed == { r \in Recipients : Has(calls[r], "print_failed") }

\* C18: the success counter never exceeds the number of recipients processed
\* so far, no recipient is both counted as a success and reported with
\* 'Failed to send', and at the end of the run the successes and the
\* 'Failed to send' reports add up to the number of recipients.
C18_CountedOrReportedFailed ==
    /\ success_count <= i
    /\ Succeeded \cap ReportedFailed = {}
    /\ pc = "done" => success_count + Cardinality(ReportedFailed) = N

\* a step-6 send action that completed
IsCompletedSend(op) ==
    /\ op[3] = "ok"
    /\ \/ op[1] = "tap" /\ op[2] = "send"
       \/ op[1] = "key" /\ op[2] = "ENTER_send"

\* C19: in one send_sms call at most one step-6 send action completes: it is
\* the last device operation of the call, which returns True with it, so no
\* later attempt sends again.
C19_AtMostOneCompletedSend ==
    fn = "send_sms" =>
        /\ \A k \in DOMAIN ops :
                IsCompletedSend(ops[k])
                    => /\ k = Len(ops)
                       /\ status = "returned"
                       /\ retval = "True"
        /\ (status = "returned" /\ ~draft)
                => /\ ops # <<>>
                   /\ IsCompletedSend(Last(ops))
                   /\ Cardinality({ k \in DOMAIN ops : IsSendStep(ops[k])
                                        /\ ops[k][1] # "find" }) = 1

\* C19 happens: the fallback Enter sent the message in the 3rd attempt, after
\* two attempts that raised
C19_Witness ==
    /\ fn = "send_sms"
    /\ status = "returned"
    /\ outcomes = <<"exception", "exception">>
    /\ Last(ops) = Op("key", "ENTER_send", "ok")

NumbersInvalid == ~numbers_file.exists \/ ParseableLines = {}

ContentInvalid == ~content_file.exists \/ Blank(FirstLine)

\* C20: in a run whose startup validation fails main never gets to the
\* connection: it is validating, numbers first, or has exited with the code
\* of the first invalid file, and no device operation has been issued.
C20_NoDeviceBeforeValidation ==
    (NumbersInvalid \/ ContentInvalid) =>
        /\ pc \in {"get_phone_numbers", "get_message", "exit"}
        /\ pc = "get_message" => ~NumbersInvalid
        /\ fn = "main"
        /\ ops = <<>>
        /\ i = 0
        /\ pc = "exit" =>
                exit_code = IF ~numbers_file.exists THEN 1
                            ELSE IF NumbersInvalid THEN 2
                            ELSE IF ~content_file.exists THEN 1
                            ELSE 3

\* C20 happens: both files are invalid and main exited with the code of the
\* numbers file
C20_Witness ==
    /\ numbers_file.exists
    /\ NumbersInvalid
    /\ ContentInvalid
    /\ pc = "exit"
    /\ exit_code = 2
====
